---- MODULE Spec2Model ----
(***************************************************************************)
(* Toolsets, the ToolsetGroup and the dynamic tool-discovery handlers of   *)
(* github-mcp-server (pkg/toolsets, pkg/github/dynamic_tools.go,           *)
(* pkg/github/tools.go).                                                   *)
(*                                                                         *)
(* The main goroutine builds toolsets and the group, enables the requested *)
(* names and registers the group with the MCP server; from then on the     *)
(* server runs the dynamic handlers for its clients' requests.  Under Spec *)
(* the requests are served one at a time; under SpecConc their steps       *)
(* interleave.                                                             *)
(***************************************************************************)
EXTENDS Integers, Sequences, FiniteSets, TLC

VARIABLES
    main,   \* position of the main goroutine: "init", "serving" or "exit"
    ts,     \* the Toolset objects constructed so far, by address
    tg,     \* the ToolsetGroup: Toolsets (name -> address), everythingOn, readOnly
    s,      \* the MCPServer: the registration calls it received, in order
    proc,   \* the requests being served: position, input, locals, result
    ret,    \* the main goroutine's last call, where it matters, and its error
    hist,   \* history: whether EnableToolset("all") was called (all) and, by
            \* address (of), who set Enabled and the AddTools calls made for it
    enum    \* the names the schemas of enable_toolset and get_toolset_tools
            \* allow for the toolset parameter, once the tools are constructed

vars == <<main, ts, tg, s, proc, ret, hist, enum>>

----------------------------------------------------------------------------
(* Bounds *)

MaxProcs == 2       \* requests in flight at once
MaxNames == 2       \* length of the list given to EnableToolsets

Procs == 1..MaxProcs

\* Names given to NewToolset, and names given to lookups: "all" is the
\* sentinel of EnableToolset, "non-existent" is never a toolset.  A name is
\* given to one toolset only, so the name serves as the toolset's address.
ToolsetNames == {"repos", "dynamic"}
NameInputs == ToolsetNames \cup {"all", "non-existent"}
NoParam == "<missing>"

\* The capabilities InitToolsets wires into each toolset: the arguments of
\* its AddTemplateResources, AddReadTools and AddWriteTools calls, in order.
Wiring(name) ==
    CASE name = "repos" ->
            [templates |-> << <<"repo_content">> >>,
             read |-> << <<"search_repositories", "get_file_contents">> >>,
             write |-> << <<"create_repository">> >>]
      [] name = "dynamic" ->
            [templates |-> <<>>,
             read |-> << <<"list_available_toolsets", "get_toolset_tools", "enable_toolset">> >>,
             write |-> <<>>]
      [] OTHER -> [templates |-> <<>>, read |-> <<>>, write |-> <<>>]

Range(q) == {q[i] : i \in 1..Len(q)}

RECURSIVE Flatten(_)
Flatten(qs) == IF qs = <<>> THEN <<>> ELSE Head(qs) \o Flatten(Tail(qs))

\* The argument lists that continue a list already holding `have`: the next
\* one or more of `calls`, passed in one variadic call.
NextChunks(have, calls) ==
    {Flatten(SubSeq(calls, j + 1, k)) :
        j \in {i \in 0..Len(calls) : have = Flatten(SubSeq(calls, 1, i))},
        k \in 1..Len(calls)} \ {<<>>}

----------------------------------------------------------------------------
(* pkg/toolsets: Toolset *)

NewToolset(name) ==
    [Name |-> name, Enabled |-> FALSE, readOnly |-> FALSE,
     writeTools |-> <<>>, readTools |-> <<>>, resourceTemplates |-> <<>>]

\* GetActiveTools without the read-only case.
GetActiveTools_IgnoringReadOnly(t) ==
    IF t.Enabled THEN t.readTools \o t.writeTools ELSE <<>>

\* GetActiveTools without the Enabled case.
GetActiveTools_IgnoringEnabled(t) ==
    IF t.readOnly THEN t.readTools ELSE t.readTools \o t.writeTools

GetActiveTools(t) ==
    IF t.Enabled
    THEN IF t.readOnly THEN t.readTools ELSE t.readTools \o t.writeTools
    ELSE <<>>

\* GetAvailableTools that puts the write tools first.
GetAvailableTools_WriteFirst(t) ==
    IF t.readOnly THEN t.readTools ELSE t.writeTools \o t.readTools

\* GetAvailableTools that answers for an enabled toolset only.
GetAvailableTools_WhenEnabled(t) ==
    IF ~t.Enabled THEN <<>>
    ELSE IF t.readOnly THEN t.readTools ELSE t.readTools \o t.writeTools

GetAvailableTools(t) ==
    IF t.readOnly THEN t.readTools ELSE t.readTools \o t.writeTools

\* The calls Toolset.RegisterTools makes on the server, in order.
AddToolCalls(tools) == [i \in 1..Len(tools) |-> [call |-> "AddTool", items |-> <<tools[i]>>]]
AddResourceTemplateCalls(rs) ==
    [i \in 1..Len(rs) |-> [call |-> "AddResourceTemplate", items |-> <<rs[i]>>]]

\* RegisterTools that registers the resource templates first.
Toolset_RegisterTools_TemplatesFirst(t) ==
    IF ~t.Enabled
    THEN <<>>
    ELSE AddResourceTemplateCalls(t.resourceTemplates)
         \o AddToolCalls(t.readTools)
         \o (IF ~t.readOnly THEN AddToolCalls(t.writeTools) ELSE <<>>)

\* RegisterTools without the Enabled test.
Toolset_RegisterTools_Unconditional(t) ==
    AddToolCalls(t.readTools)
    \o (IF ~t.readOnly THEN AddToolCalls(t.writeTools) ELSE <<>>)
    \o AddResourceTemplateCalls(t.resourceTemplates)

Toolset_RegisterTools(t) ==
    IF ~t.Enabled
    THEN <<>>
    ELSE AddToolCalls(t.readTools)
         \o (IF ~t.readOnly THEN AddToolCalls(t.writeTools) ELSE <<>>)
         \o AddResourceTemplateCalls(t.resourceTemplates)

SetReadOnly(t) == [t EXCEPT !.readOnly = TRUE]

\* AddWriteTools without the read-only test.
AddWriteTools_Always(t, tools) == [t EXCEPT !.writeTools = @ \o tools]

AddWriteTools(t, tools) ==
    IF ~t.readOnly THEN [t EXCEPT !.writeTools = @ \o tools] ELSE t

AddReadTools(t, tools) == [t EXCEPT !.readTools = @ \o tools]

AddTemplateResources(t, rs) == [t EXCEPT !.resourceTemplates = @ \o rs]

----------------------------------------------------------------------------
(* pkg/toolsets: ToolsetGroup.  A group value g is the group's fields; the *)
(* heap h holds the toolsets it points to.                                 *)

NewToolsetGroup(readOnly) ==
    [Toolsets |-> <<>>, everythingOn |-> FALSE, readOnly |-> readOnly]

Has(g, name) == name \in DOMAIN g.Toolsets

\* g.Toolsets[name] = a
MapPut(m, name, a) ==
    [n \in DOMAIN m \cup {name} |-> IF n = name THEN a ELSE m[n]]

\* AddToolset that gives the toolset the group's read-only policy.
AddToolset_AssigningReadOnly(g, h, a) ==
    LET h1 == [h EXCEPT ![a].readOnly = g.readOnly]
    IN  [g |-> [g EXCEPT !.Toolsets = MapPut(@, h1[a].Name, a)], h |-> h1]

\* AddToolset(ts), a the address of ts: the group and the heap after the call.
AddToolset(g, h, a) ==
    LET h1 == IF g.readOnly THEN [h EXCEPT ![a] = SetReadOnly(@)] ELSE h
    IN  [g |-> [g EXCEPT !.Toolsets = MapPut(@, h1[a].Name, a)], h |-> h1]

\* IsEnabled that looks the name up before the override.
IsEnabled_LookupFirst(g, h, name) ==
    IF ~Has(g, name) THEN FALSE
    ELSE IF g.everythingOn THEN TRUE ELSE h[g.Toolsets[name]].Enabled

IsEnabled(g, h, name) ==
    IF g.everythingOn
    THEN TRUE
    ELSE IF ~Has(g, name) THEN FALSE ELSE h[g.Toolsets[name]].Enabled

Nil == <<>>
DoesNotExist(name) == <<"toolset", name, "does not exist">>

\* EnableToolset that takes a missing name for "all".
ToolsetGroup_EnableToolset_MissingIsAll(g, h, name) ==
    IF name = "all" \/ ~Has(g, name)
    THEN [err |-> IF name = "all" THEN Nil ELSE DoesNotExist(name),
          g |-> [g EXCEPT !.everythingOn = TRUE], h |-> h]
    ELSE [err |-> Nil, g |-> g,
          h |-> [h EXCEPT ![g.Toolsets[name]].Enabled = TRUE]]

\* EnableToolset whose "all" also sets the flag of every toolset of the group.
ToolsetGroup_EnableToolset_AllSetsFlags(g, h, name) ==
    IF name = "all"
    THEN [err |-> Nil, g |-> [g EXCEPT !.everythingOn = TRUE],
          h |-> [a \in DOMAIN h |->
                    IF \E n \in DOMAIN g.Toolsets : g.Toolsets[n] = a
                    THEN [h[a] EXCEPT !.Enabled = TRUE] ELSE h[a]]]
    ELSE IF ~Has(g, name)
         THEN [err |-> DoesNotExist(name), g |-> g, h |-> h]
         ELSE [err |-> Nil, g |-> g,
               h |-> [h EXCEPT ![g.Toolsets[name]].Enabled = TRUE]]

\* EnableToolset(name): the error returned, the group and the heap after the call.
ToolsetGroup_EnableToolset(g, h, name) ==
    IF name = "all"
    THEN [err |-> Nil, g |-> [g EXCEPT !.everythingOn = TRUE], h |-> h]
    ELSE IF ~Has(g, name)
         THEN [err |-> DoesNotExist(name), g |-> g, h |-> h]
         ELSE [err |-> Nil, g |-> g,
               h |-> [h EXCEPT ![g.Toolsets[name]].Enabled = TRUE]]

\* EnableToolsets that goes on after an error and returns the first one.
RECURSIVE ToolsetGroup_EnableToolsets_GoingOn(_, _, _)
ToolsetGroup_EnableToolsets_GoingOn(g, h, names) ==
    IF names = <<>>
    THEN [err |-> Nil, g |-> g, h |-> h]
    ELSE LET r == ToolsetGroup_EnableToolset(g, h, Head(names))
             rest == ToolsetGroup_EnableToolsets_GoingOn(r.g, r.h, Tail(names))
         IN  [rest EXCEPT !.err = IF r.err # Nil THEN r.err ELSE @]

\* EnableToolsets(names): the loop over names, returning at the first error.
RECURSIVE ToolsetGroup_EnableToolsets(_, _, _)
ToolsetGroup_EnableToolsets(g, h, names) ==
    IF names = <<>>
    THEN [err |-> Nil, g |-> g, h |-> h]
    ELSE LET r == ToolsetGroup_EnableToolset(g, h, Head(names))
         IN  IF r.err # Nil
             THEN r
             ELSE ToolsetGroup_EnableToolsets(r.g, r.h, Tail(names))

\* The orders in which a range over the map Toolsets can visit its keys.
Orders(S) ==
    {q \in [1..Cardinality(S) -> S] : \A i, j \in 1..Cardinality(S) : i # j => q[i] # q[j]}

\* RegisterTools(s): the calls made on the server when the map is visited in `order`.
ToolsetGroup_RegisterTools(g, h, order) ==
    Flatten([i \in 1..Len(order) |-> Toolset_RegisterTools(h[g.Toolsets[order[i]]])])

----------------------------------------------------------------------------
(* pkg/github/tools.go: InitToolsets, with the toolsets of ToolsetNames *)

RECURSIVE Chain(_, _, _)
Chain(Add(_, _), t, calls) ==
    IF calls = <<>> THEN t ELSE Chain(Add, Add(t, Head(calls)), Tail(calls))

\* NewToolset(name).AddTemplateResources(...).AddReadTools(...).AddWriteTools(...)
Wired(name) ==
    Chain(AddWriteTools,
          Chain(AddReadTools,
                Chain(AddTemplateResources, NewToolset(name), Wiring(name).templates),
                Wiring(name).read),
          Wiring(name).write)

\* dynamic_tools.go, ToolsetEnum: the names in the group's map when the tool
\* is constructed.
ToolsetEnum(g) == DOMAIN g.Toolsets

\* The tools whose construction calls ToolsetEnum.
EnumTools == {"get_toolset_tools", "enable_toolset"}

\* The toolsets are built and added to a new group, the tools of "dynamic"
\* are constructed, "dynamic" is added last, and the passed names are
\* enabled: the error, the group and the heap returned, and the enum the
\* tools of "dynamic" were constructed with.
InitToolsets(passedToolsets, readOnly) ==
    LET tsg == NewToolsetGroup(readOnly)
        heap == [name \in {"repos", "dynamic"} |-> Wired(name)]
        r1 == AddToolset(tsg, heap, "repos")
        r2 == AddToolset(r1.g, r1.h, "dynamic")
        r == ToolsetGroup_EnableToolsets(r2.g, r2.h, passedToolsets)
    IN  [err |-> r.err, g |-> r.g, h |-> r.h, enum |-> ToolsetEnum(r1.g)]

----------------------------------------------------------------------------
(* The MCP server: the capabilities it holds after the calls in s. *)

ServerTools(log) ==
    UNION {Range(log[i].items) : i \in {j \in 1..Len(log) : log[j].call \in {"AddTool", "AddTools"}}}

ServerResourceTemplates(log) ==
    UNION {Range(log[i].items) : i \in {j \in 1..Len(log) : log[j].call = "AddResourceTemplate"}}

----------------------------------------------------------------------------
(* State *)

NoRet == [op |-> "", err |-> Nil]
NoRes == [isError |-> FALSE, text |-> <<>>, json |-> <<>>]
Idle == [pc |-> "idle", req |-> "", arg |-> "", t |-> "", res |-> NoRes]
Fresh == [by |-> "", pushes |-> 0]

Init ==
    /\ main = "init"
    /\ ts = <<>>
    /\ \E readOnly \in BOOLEAN : tg = NewToolsetGroup(readOnly)
    /\ s = <<>>
    /\ proc = [p \in Procs |-> Idle]
    /\ ret = NoRet
    /\ hist = [all |-> FALSE, of |-> <<>>]
    /\ enum = {}

Addrs == DOMAIN ts

\* Whether EnableToolsets(names) on group g reaches a name "all": no name
\* before it is missing from the group.
ReachesAll(g, names) ==
    \E i \in 1..Len(names) :
        /\ names[i] = "all"
        /\ \A j \in 1..(i - 1) : names[j] = "all" \/ Has(g, names[j])

\* The history after the main goroutine called EnableToolsets(names) on group
\* g, which took the heap from h to h1.
Enabler(hi, g, names, h, h1) ==
    [all |-> hi.all \/ ReachesAll(g, names),
     of |-> [a \in DOMAIN h1 |->
        LET old == IF a \notin DOMAIN hi.of THEN Fresh ELSE hi.of[a]
            was == IF a \notin DOMAIN h THEN FALSE ELSE h[a].Enabled
        IN  IF h1[a].Enabled /\ ~was THEN [old EXCEPT !.by = "group"] ELSE old]]

----------------------------------------------------------------------------
(* The main goroutine, before the server starts serving *)

Call_NewToolset(name) ==
    /\ main = "init"
    /\ name \notin DOMAIN ts
    /\ ts' = MapPut(ts, name, NewToolset(name))
    /\ hist' = [hist EXCEPT !.of = MapPut(@, name, Fresh)]
    /\ ret' = NoRet
    /\ UNCHANGED <<main, tg, s, proc, enum>>

\* AddReadTools(tools...); the arguments are constructed first, the tools of
\* EnumTools with the enum of the group as it is then.
Call_AddReadTools(a, tools) ==
    /\ main = "init"
    /\ ts' = [ts EXCEPT ![a] = AddReadTools(@, tools)]
    /\ enum' = IF Range(tools) \cap EnumTools # {} THEN ToolsetEnum(tg) ELSE enum
    /\ ret' = NoRet
    /\ UNCHANGED <<main, tg, s, proc, hist>>

Call_AddWriteTools(a, tools) ==
    /\ main = "init"
    /\ ts' = [ts EXCEPT ![a] = AddWriteTools(@, tools)]
    /\ ret' = [op |-> "AddWriteTools", err |-> Nil]
    /\ UNCHANGED <<main, tg, s, proc, hist, enum>>

Call_AddTemplateResources(a, rs) ==
    /\ main = "init"
    /\ ts' = [ts EXCEPT ![a] = AddTemplateResources(@, rs)]
    /\ ret' = NoRet
    /\ UNCHANGED <<main, tg, s, proc, hist, enum>>

Call_SetReadOnly(a) ==
    /\ main = "init"
    /\ ts' = [ts EXCEPT ![a] = SetReadOnly(@)]
    /\ ret' = NoRet
    /\ UNCHANGED <<main, tg, s, proc, hist, enum>>

Call_AddToolset(a) ==
    /\ main = "init"
    /\ LET r == AddToolset(tg, ts, a)
       IN  tg' = r.g /\ ts' = r.h
    /\ ret' = NoRet
    /\ UNCHANGED <<main, s, proc, hist, enum>>

Call_EnableToolset(name) ==
    /\ main = "init"
    /\ LET r == ToolsetGroup_EnableToolset(tg, ts, name)
       IN  /\ tg' = r.g
           /\ ts' = r.h
           /\ ret' = [op |-> "EnableToolset", err |-> r.err]
           /\ hist' = Enabler(hist, tg, <<name>>, ts, r.h)
    /\ UNCHANGED <<main, s, proc, enum>>

Call_EnableToolsets(names) ==
    /\ main = "init"
    /\ LET r == ToolsetGroup_EnableToolsets(tg, ts, names)
       IN  /\ tg' = r.g
           /\ ts' = r.h
           /\ ret' = [op |-> "EnableToolsets", err |-> r.err]
           /\ hist' = Enabler(hist, tg, names, ts, r.h)
    /\ UNCHANGED <<main, s, proc, enum>>

\* The whole of InitToolsets, on a process that has built nothing yet; its
\* error ends the process.
Call_InitToolsets(passedToolsets) ==
    /\ main = "init"
    /\ ts = <<>>
    /\ tg = NewToolsetGroup(tg.readOnly)
    /\ LET r == InitToolsets(passedToolsets, tg.readOnly)
       IN  /\ tg' = r.g
           /\ ts' = r.h
           /\ ret' = [op |-> "InitToolsets", err |-> r.err]
           /\ hist' = Enabler(hist, r.g, passedToolsets, <<>>, r.h)
           /\ main' = IF r.err = Nil THEN "init" ELSE "exit"
           /\ enum' = r.enum
    /\ UNCHANGED <<s, proc>>

\* tsg.RegisterTools(s), after which the server serves requests.
Call_RegisterTools ==
    /\ main = "init"
    /\ \E order \in Orders(DOMAIN tg.Toolsets) :
            s' = s \o ToolsetGroup_RegisterTools(tg, ts, order)
    /\ main' = "serving"
    /\ ret' = [op |-> "RegisterTools", err |-> Nil]
    /\ UNCHANGED <<ts, tg, proc, hist, enum>>

NameLists == UNION {[1..n -> NameInputs] : n \in 0..MaxNames}

Main ==
    \/ \E name \in ToolsetNames : Call_NewToolset(name)
    \/ \E a \in Addrs :
        \/ \E tools \in NextChunks(ts[a].readTools, Wiring(ts[a].Name).read) :
                Call_AddReadTools(a, tools)
        \/ \E tools \in NextChunks(ts[a].writeTools, Wiring(ts[a].Name).write) :
                Call_AddWriteTools(a, tools)
        \/ \E rs \in NextChunks(ts[a].resourceTemplates, Wiring(ts[a].Name).templates) :
                Call_AddTemplateResources(a, rs)
        \/ Call_SetReadOnly(a)
        \/ Call_AddToolset(a)
    \/ \E name \in NameInputs : Call_EnableToolset(name)
    \/ \E names \in NameLists : Call_EnableToolsets(names)
    \/ \E names \in NameLists : Call_InitToolsets(names)
    \/ Call_RegisterTools

----------------------------------------------------------------------------
(* pkg/github/dynamic_tools.go: the handlers, run by request p *)

Error(text) == [isError |-> TRUE, text |-> text, json |-> <<>>]
Text(text) == [isError |-> FALSE, text |-> text, json |-> <<>>]
Json(m) == [isError |-> FALSE, text |-> <<>>, json |-> m]

MissingParam == Error(<<"missing required parameter: toolset">>)
NotFound(name) == Error(<<"Toolset", name, "not found">>)
AlreadyEnabled(name) == Text(<<"Toolset", name, "is already enabled">>)
Enabled(name) == Text(<<"Toolset", name, "enabled">>)

Description(id) == <<"description of", id>>

Done(p, req, arg, res) ==
    proc' = [proc EXCEPT ![p] = [pc |-> "done", req |-> req, arg |-> arg, t |-> "", res |-> res]]

\* The handler with the lookup before the required parameter.
EnableToolset_Begin_LookupFirst(p, arg) ==
    /\ main = "serving"
    /\ proc[p].pc = "idle"
    /\ IF ~Has(tg, arg)
       THEN Done(p, "enable_toolset", arg, NotFound(arg))
       ELSE IF arg = NoParam
            THEN Done(p, "enable_toolset", arg, MissingParam)
            ELSE proc' = [proc EXCEPT ![p] =
                    [pc |-> "check", req |-> "enable_toolset", arg |-> arg,
                     t |-> tg.Toolsets[arg], res |-> NoRes]]
    /\ ret' = NoRet
    /\ UNCHANGED <<main, ts, tg, s, hist, enum>>

\* Lines 33-40: the required parameter, then the lookup in the group's map.
EnableToolset_Begin(p, arg) ==
    /\ main = "serving"
    /\ proc[p].pc = "idle"
    /\ IF arg = NoParam
       THEN Done(p, "enable_toolset", arg, MissingParam)
       ELSE IF ~Has(tg, arg)
            THEN Done(p, "enable_toolset", arg, NotFound(arg))
            ELSE proc' = [proc EXCEPT ![p] =
                    [pc |-> "check", req |-> "enable_toolset", arg |-> arg,
                     t |-> tg.Toolsets[arg], res |-> NoRes]]
    /\ ret' = NoRet
    /\ UNCHANGED <<main, ts, tg, s, hist, enum>>

\* The handler without its already-enabled return.
EnableToolset_Check_Always(p) ==
    /\ proc[p].pc = "check"
    /\ proc' = [proc EXCEPT ![p].pc = "set"]
    /\ UNCHANGED <<main, ts, tg, s, ret, hist, enum>>

\* Lines 41-43: if toolset.Enabled, "already enabled".
EnableToolset_Check(p) ==
    /\ proc[p].pc = "check"
    /\ IF ts[proc[p].t].Enabled
       THEN Done(p, "enable_toolset", proc[p].arg, AlreadyEnabled(proc[p].arg))
       ELSE proc' = [proc EXCEPT ![p].pc = "set"]
    /\ UNCHANGED <<main, ts, tg, s, ret, hist, enum>>

\* Line 45: toolset.Enabled = true.
EnableToolset_Set(p) ==
    /\ proc[p].pc = "set"
    /\ ts' = [ts EXCEPT ![proc[p].t].Enabled = TRUE]
    /\ hist' = [hist EXCEPT !.of[proc[p].t].by = IF ts[proc[p].t].Enabled THEN @ ELSE "dynamic"]
    /\ proc' = [proc EXCEPT ![p].pc = "push"]
    /\ UNCHANGED <<main, tg, s, ret, enum>>

\* Lines 51-53: s.AddTools(toolset.GetActiveTools()...), then "enabled".
EnableToolset_Push(p) ==
    /\ proc[p].pc = "push"
    /\ s' = Append(s, [call |-> "AddTools", items |-> GetActiveTools(ts[proc[p].t])])
    /\ hist' = [hist EXCEPT !.of[proc[p].t].pushes = @ + 1]
    /\ Done(p, "enable_toolset", proc[p].arg, Enabled(proc[p].arg))
    /\ UNCHANGED <<main, ts, tg, ret, enum>>

\* list_available_toolsets that reports each toolset's own flag.
ListAvailableToolsets_OwnFlag(p) ==
    /\ main = "serving"
    /\ proc[p].pc = "idle"
    /\ Done(p, "list_available_toolsets", "",
            Json([name \in DOMAIN tg.Toolsets |-> ts[tg.Toolsets[name]].Enabled]))
    /\ ret' = NoRet
    /\ UNCHANGED <<main, ts, tg, s, hist, enum>>

\* Lines 61-74: the map from every name of the group to IsEnabled(name).
ListAvailableToolsets(p) ==
    /\ main = "serving"
    /\ proc[p].pc = "idle"
    /\ Done(p, "list_available_toolsets", "",
            Json([name \in DOMAIN tg.Toolsets |-> IsEnabled(tg, ts, name)]))
    /\ ret' = NoRet
    /\ UNCHANGED <<main, ts, tg, s, hist, enum>>

\* get_toolset_tools that lists the available tools.
GetToolsetsTools_Available(p, arg) ==
    /\ main = "serving"
    /\ proc[p].pc = "idle"
    /\ IF arg = NoParam
       THEN Done(p, "get_toolset_tools", arg, MissingParam)
       ELSE IF ~Has(tg, arg)
            THEN Done(p, "get_toolset_tools", arg, NotFound(arg))
            ELSE LET tools == GetAvailableTools(ts[tg.Toolsets[arg]])
                 IN  Done(p, "get_toolset_tools", arg,
                          Json([id \in Range(tools) |-> Description(id)]))
    /\ ret' = NoRet
    /\ UNCHANGED <<main, ts, tg, s, hist, enum>>

\* Lines 86-109: the required parameter, the lookup, then the map from the
\* name of each active tool to its description.
GetToolsetsTools(p, arg) ==
    /\ main = "serving"
    /\ proc[p].pc = "idle"
    /\ IF arg = NoParam
       THEN Done(p, "get_toolset_tools", arg, MissingParam)
       ELSE IF ~Has(tg, arg)
            THEN Done(p, "get_toolset_tools", arg, NotFound(arg))
            ELSE LET tools == GetActiveTools(ts[tg.Toolsets[arg]])
                 IN  Done(p, "get_toolset_tools", arg,
                          Json([id \in Range(tools) |-> Description(id)]))
    /\ ret' = NoRet
    /\ UNCHANGED <<main, ts, tg, s, hist, enum>>

\* The result goes back to the client.
Return(p) ==
    /\ proc[p].pc = "done"
    /\ proc' = [proc EXCEPT ![p] = Idle]
    /\ UNCHANGED <<main, ts, tg, s, ret, hist, enum>>

RequestArgs == NameInputs \cup {NoParam}

Serve(p) ==
    \/ \E arg \in RequestArgs : EnableToolset_Begin(p, arg)
    \/ EnableToolset_Check(p)
    \/ EnableToolset_Set(p)
    \/ EnableToolset_Push(p)
    \/ ListAvailableToolsets(p)
    \/ \E arg \in RequestArgs : GetToolsetsTools(p, arg)
    \/ Return(p)

\* One request at a time.
Next == Main \/ Serve(1)
Spec == Init /\ [][Next]_vars

\* NewToolset takes any string: under SpecAnyName the main goroutine also
\* gives a toolset the name that EnableToolset reserves.
ReservedNames == {"all"}
NextAnyName == Next \/ \E name \in ReservedNames : Call_NewToolset(name)
SpecAnyName == Init /\ [][NextAnyName]_vars

\* The server as main starts it (InitToolsets, then RegisterTools), serving
\* its requests concurrently.
InitConc ==
    \E readOnly \in BOOLEAN, passedToolsets \in NameLists :
        LET r == InitToolsets(passedToolsets, readOnly)
        IN  /\ r.err = Nil
            /\ main = "serving"
            /\ ts = r.h
            /\ tg = r.g
            /\ \E order \in Orders(DOMAIN r.g.Toolsets) :
                    s = ToolsetGroup_RegisterTools(r.g, r.h, order)
            /\ proc = [p \in Procs |-> Idle]
            /\ ret = [op |-> "RegisterTools", err |-> Nil]
            /\ hist = Enabler([all |-> FALSE, of |-> <<>>], r.g, passedToolsets, <<>>, r.h)
            /\ enum = r.enum

NextConc == \E p \in Procs : Serve(p)
SpecConc == InitConc /\ [][NextConc]_vars

----------------------------------------------------------------------------
(* Read-only policy *)

WriteCapabilities == UNION {Range(Flatten(Wiring(name).write)) : name \in ToolsetNames}

\* C1: in a group constructed read-only, no write capability of any toolset
\* is ever among the tools registered with the server, whatever the order of
\* construction, AddToolset, EnableToolsets, RegisterTools and enable_toolset
\* requests.
C1_ReadOnlyGroupRegistersNoWriteTool ==
    tg.readOnly => ServerTools(s) \cap WriteCapabilities = {}

\* A read-only group holding an enabled toolset that has write tools, whose
\* tools an enable_toolset request pushed to the server.
C1_Witness ==
    /\ tg.readOnly
    /\ \E name \in DOMAIN tg.Toolsets :
        LET a == tg.Toolsets[name]
        IN  /\ ts[a].writeTools # <<>>
            /\ ts[a].Enabled
            /\ hist.of[a].pushes > 0
            /\ Range(ts[a].readTools) \subseteq ServerTools(s)
            /\ ts[a].readTools # <<>>

\* C2: a toolset that is read-only holds no write tools, in every state.
C2_ReadOnlyToolsetHasNoWriteTools ==
    \A a \in Addrs : ts[a].readOnly => ts[a].writeTools = <<>>

----------------------------------------------------------------------------
(* Concurrent enable_toolset requests *)

\* C3: the tools of one toolset are submitted to AddTools at most once, and at
\* most one request for it is answered "enabled".
C3_RegisteredOnce ==
    /\ \A a \in Addrs : hist.of[a].pushes <= 1
    /\ \A name \in ToolsetNames :
        Cardinality({p \in Procs : proc[p].pc = "done" /\ proc[p].res = Enabled(name)}) <= 1

\* C4: a toolset whose Enabled flag a request set has its active tools on the
\* server in every state in which the flag reads true.
C4_EnabledOnlyAfterPush ==
    \A a \in Addrs :
        (hist.of[a].by = "dynamic" /\ ts[a].Enabled)
            => Range(GetActiveTools(ts[a])) \subseteq ServerTools(s)

----------------------------------------------------------------------------
(* Startup *)

\* C5: right after the group's RegisterTools, every toolset of the group that
\* IsEnabled reports enabled has its read tools, its write tools unless it is
\* read-only, and its resource templates registered with the server.
C5_StartupRegistersEnabled ==
    ret.op = "RegisterTools" =>
        \A name \in DOMAIN tg.Toolsets :
            IsEnabled(tg, ts, name) =>
                /\ Range(GetAvailableTools(ts[tg.Toolsets[name]])) \subseteq ServerTools(s)
                /\ Range(ts[tg.Toolsets[name]].resourceTemplates)
                        \subseteq ServerResourceTemplates(s)

----------------------------------------------------------------------------
(* enable_toolset, one request at a time *)

\* The address the group's map gives a name a request carried.
Named(p) == tg.Toolsets[proc[p].arg]

C6_State ==
    /\ \A a \in Addrs :
        /\ hist.of[a].pushes <= 1
        /\ hist.of[a].pushes = 1 => ts[a].Enabled /\ hist.of[a].by = "dynamic"
        /\ hist.of[a].by = "group" => hist.of[a].pushes = 0
    /\ \A p \in Procs :
        (proc[p].pc = "done" /\ proc[p].req = "enable_toolset" /\ ~proc[p].res.isError)
            => /\ ts[Named(p)].Enabled
               /\ proc[p].res = Enabled(proc[p].arg)
                    => /\ hist.of[Named(p)].pushes = 1
                       /\ s[Len(s)] = [call |-> "AddTools",
                                       items |-> GetAvailableTools(ts[Named(p)])]
               /\ proc[p].res # Enabled(proc[p].arg)
                    => proc[p].res = AlreadyEnabled(proc[p].arg)

C6_Step ==
    \A p \in Procs :
        /\ (proc[p].pc = "check" /\ ts[proc[p].t].Enabled)
            => /\ proc'[p].pc = "done"
               /\ proc'[p].res = AlreadyEnabled(proc[p].arg)
               /\ UNCHANGED <<ts, tg, s>>
        /\ (proc[p].pc = "check" /\ ~ts[proc[p].t].Enabled)
            => /\ proc'[p].pc \in {"set", "push", "done"}
               /\ proc'[p].pc = "done" => proc'[p].res = Enabled(proc[p].arg)
        /\ (proc[p].pc \in {"set", "push"})
            => /\ proc'[p].pc \in {"push", "done"}
               /\ proc'[p].pc = "done"
                    => /\ proc'[p].res = Enabled(proc[p].arg)
                       /\ Len(s') = Len(s) + 1
                       /\ \A a \in Addrs : a # proc[p].t => ts'[a] = ts[a]

\* C6: with requests served one at a time, the first enable_toolset of a
\* disabled toolset sets Enabled, submits the toolset's tools to AddTools once
\* and answers "enabled"; a request for a toolset that is enabled, by an
\* earlier request or at startup, answers "already enabled" and changes neither
\* a flag nor the server, so no toolset is submitted twice.
C6_SequentialEnable == []C6_State /\ [][C6_Step]_vars

\* A toolset enabled by one request and asked for again: "already enabled".
C6_Witness ==
    \E p \in Procs :
        /\ proc[p].pc = "done"
        /\ proc[p].res = AlreadyEnabled(proc[p].arg)
        /\ hist.of[Named(p)].by = "dynamic"
        /\ hist.of[Named(p)].pushes = 1
        /\ ts[Named(p)].readTools # <<>>

----------------------------------------------------------------------------
(* ToolsetGroup *)

\* C7: once EnableToolset("all") was called IsEnabled is true of every name,
\* of toolsets in the group whatever their flag and of names not in it; until
\* then it is the named toolset's Enabled flag, and false of a name not in the
\* group.
C7_IsEnabled ==
    \A name \in NameInputs :
        IsEnabled(tg, ts, name) =
            IF hist.all THEN TRUE
            ELSE Has(tg, name) /\ ts[tg.Toolsets[name]].Enabled

\* After "all": a toolset of the group whose own flag is false, while another
\* toolset, not in the group, exists.
C7_Witness ==
    /\ hist.all
    /\ \E name \in DOMAIN tg.Toolsets : ~ts[tg.Toolsets[name]].Enabled
    /\ \E name \in ToolsetNames : ~Has(tg, name)
    /\ \E a \in Addrs : \A name \in DOMAIN tg.Toolsets : tg.Toolsets[name] # a

\* C8: EnableToolset of a name that is not "all" and not in the group returns
\* the does-not-exist error and changes neither the group nor any toolset.
C8_UnknownNameChangesNothing ==
    [][ret'.op = "EnableToolset" =>
        \A name \in NameInputs :
            (name # "all" /\ ~Has(tg, name) /\ Call_EnableToolset(name))
                => /\ ret'.err = DoesNotExist(name)
                   /\ tg' = tg
                   /\ ts' = ts
                   /\ s' = s]_vars

\* The error returned by EnableToolset on a group that holds an enabled and a
\* disabled toolset.
C8_Witness ==
    /\ ret.op = "EnableToolset"
    /\ ret.err # Nil
    /\ \E name \in DOMAIN tg.Toolsets : ts[tg.Toolsets[name]].Enabled
    /\ \E name \in DOMAIN tg.Toolsets : ~ts[tg.Toolsets[name]].Enabled

\* The first position of names whose name EnableToolset fails on in group g,
\* Len(names) + 1 if there is none.
RECURSIVE FirstFailure(_, _, _)
FirstFailure(g, names, i) ==
    IF i > Len(names) THEN i
    ELSE IF names[i] # "all" /\ ~Has(g, names[i]) THEN i
    ELSE FirstFailure(g, names, i + 1)

C9_After(names) ==
    LET r == ToolsetGroup_EnableToolsets(tg, ts, names)
        k == FirstFailure(tg, names, 1)
        before == {names[i] : i \in 1..(k - 1)}
    IN  /\ r.err = IF k <= Len(names) THEN DoesNotExist(names[k]) ELSE Nil
        /\ r.g = [tg EXCEPT !.everythingOn = @ \/ "all" \in before]
        /\ DOMAIN r.h = DOMAIN ts
        /\ \A a \in Addrs :
            r.h[a] = [ts[a] EXCEPT !.Enabled =
                        @ \/ \E name \in before \ {"all"} : tg.Toolsets[name] = a]

\* C9: EnableToolsets applies the names in order up to the first that fails
\* and returns that failure: the names before it stay applied, it and the
\* names after it are not; with no failure it returns nil and all are applied.
\* Stated of the call on every group the main goroutine can have built.
C9_EnableToolsetsFailFast ==
    main = "init" => \A names \in NameLists : C9_After(names)

\* EnableToolsets has failed after it enabled a toolset, and another toolset
\* of the group is left disabled.
C9_Witness ==
    /\ ret.op = "EnableToolsets"
    /\ ret.err # Nil
    /\ ~tg.everythingOn
    /\ \E name \in DOMAIN tg.Toolsets : hist.of[tg.Toolsets[name]].by = "group"
    /\ \E name \in DOMAIN tg.Toolsets : ~ts[tg.Toolsets[name]].Enabled

----------------------------------------------------------------------------
(* Toolset *)

\* C10: a toolset whose Enabled flag is false has no active tools, whatever
\* its readOnly flag and its read and write tools.
C10_DisabledHasNoActiveTools ==
    \A a \in Addrs : ~ts[a].Enabled => GetActiveTools(ts[a]) = <<>>

\* A disabled read-only toolset that holds read and write tools.
C10_Witness ==
    \E a \in Addrs :
        /\ ~ts[a].Enabled
        /\ ts[a].readOnly
        /\ ts[a].readTools # <<>>
        /\ ts[a].writeTools # <<>>

----------------------------------------------------------------------------
(* Toolset: active and available tools, the read-only no-op *)

\* The list `have` holds the arguments of the first calls of `calls`, in order.
Inserted(have, calls) ==
    \E i \in 0..Len(calls) : have = Flatten(SubSeq(calls, 1, i))

\* C11: of an enabled toolset, GetActiveTools and GetAvailableTools are both
\* the read tools, in the order they were added, when it is read-only, and
\* the read tools followed by the write tools when it is not.
C11_ActiveAndAvailable ==
    \A a \in Addrs :
        ts[a].Enabled =>
            LET want == IF ts[a].readOnly
                        THEN ts[a].readTools
                        ELSE ts[a].readTools \o ts[a].writeTools
            IN  /\ GetActiveTools(ts[a]) = want
                /\ GetAvailableTools(ts[a]) = want
                /\ Inserted(ts[a].readTools, Wiring(ts[a].Name).read)
                /\ Inserted(ts[a].writeTools, Wiring(ts[a].Name).write)

\* An enabled read-only toolset that holds several read tools and a write tool.
C11_Witness ==
    \E a \in Addrs :
        /\ ts[a].Enabled
        /\ ts[a].readOnly
        /\ Len(ts[a].readTools) > 1
        /\ ts[a].writeTools # <<>>

\* C12: a step that changes a toolset's Enabled flag, by the group's
\* EnableToolset or by an enable_toolset request, and not its tools or its
\* readOnly flag, leaves the result of GetAvailableTools as it was.
C12_AvailableIgnoresEnabled ==
    [][\A a \in Addrs :
        (/\ ts'[a].Enabled # ts[a].Enabled
         /\ ts'[a].readTools = ts[a].readTools
         /\ ts'[a].writeTools = ts[a].writeTools
         /\ ts'[a].readOnly = ts[a].readOnly)
            => GetAvailableTools(ts'[a]) = GetAvailableTools(ts[a])]_vars

\* A toolset with read and write tools that a request enabled, next to one
\* that the group enabled.
C12_Witness ==
    \E a, b \in Addrs :
        /\ hist.of[a].by = "dynamic"
        /\ ts[a].Enabled
        /\ ~ts[a].readOnly
        /\ ts[a].readTools # <<>>
        /\ ts[a].writeTools # <<>>
        /\ hist.of[b].by = "group"
        /\ ts[b].readTools # <<>>

\* The argument lists AddWriteTools can be given for a toolset named name.
WriteArgs(name) == NextChunks(<<>>, Wiring(name).write)

C13_State ==
    \A a \in Addrs :
        ts[a].readOnly =>
            \A tools \in WriteArgs(ts[a].Name) : AddWriteTools(ts[a], tools) = ts[a]

C13_Step ==
    ret'.op = "AddWriteTools" =>
        /\ ret'.err = Nil
        /\ \A a \in Addrs :
            ts[a].readOnly =>
                /\ ts'[a].writeTools = ts[a].writeTools
                /\ ts'[a].readTools = ts[a].readTools
                /\ GetAvailableTools(ts'[a]) = GetAvailableTools(ts[a])

\* C13: AddWriteTools on a toolset whose readOnly flag is set, by SetReadOnly
\* or by AddToolset on a read-only group, returns without an error and leaves
\* the toolset's write tools, its read tools and the result of
\* GetAvailableTools as they were.
C13_ReadOnlyAddWriteNoOp == []C13_State /\ [][C13_Step]_vars

\* AddWriteTools was called on the toolset after a read-only group took it:
\* it holds read tools and no write tool.
C13_Witness ==
    /\ ret.op = "AddWriteTools"
    /\ tg.readOnly
    /\ \E name \in DOMAIN tg.Toolsets :
        LET a == tg.Toolsets[name]
        IN  /\ WriteArgs(name) # {}
            /\ ts[a].readOnly
            /\ ts[a].writeTools = <<>>
            /\ ts[a].readTools # <<>>
    /\ \A a \in Addrs : WriteArgs(ts[a].Name) # {} => ts[a].writeTools = <<>>

----------------------------------------------------------------------------
(* Flags are set once *)

\* C14: no step of the main goroutine or of a request resets a flag: a
\* toolset that is enabled stays enabled, a toolset that is read-only stays
\* read-only, everythingOn stays set, and no toolset goes away.
C14_Irreversible ==
    [][/\ Addrs \subseteq DOMAIN ts'
       /\ \A a \in Addrs :
            /\ ts[a].Enabled => ts'[a].Enabled
            /\ ts[a].readOnly => ts'[a].readOnly
       /\ tg.everythingOn => tg'.everythingOn
       /\ DOMAIN tg.Toolsets \subseteq DOMAIN tg'.Toolsets]_vars

\* After "all" and after the group enabled a read-only toolset, the group was
\* registered and an enable_toolset request for that toolset was answered.
C14_Witness ==
    /\ tg.everythingOn
    /\ main = "serving"
    /\ \E p \in Procs :
        /\ proc[p].pc = "done"
        /\ proc[p].res = AlreadyEnabled(proc[p].arg)
        /\ hist.of[Named(p)].by = "group"
        /\ ts[Named(p)].readOnly
        /\ ts[Named(p)].Enabled

----------------------------------------------------------------------------
(* list_available_toolsets, get_toolset_tools and the error results *)

\* C15: list_available_toolsets answers, without an error, the map whose keys
\* are the names of the group's toolsets and whose value for a name is the
\* toolset's flag, or true for every name once "all" was enabled; the empty
\* map for an empty group.  It changes no toolset, not the group and not the
\* server.
C15_ListAvailableToolsets ==
    [][\A p \in Procs :
        (/\ proc[p].pc = "idle"
         /\ proc'[p].pc = "done"
         /\ proc'[p].req = "list_available_toolsets")
            => /\ ~proc'[p].res.isError
               /\ DOMAIN proc'[p].res.json = DOMAIN tg.Toolsets
               /\ \A name \in DOMAIN tg.Toolsets :
                    /\ proc'[p].res.json[name] =
                            (tg.everythingOn \/ ts[tg.Toolsets[name]].Enabled)
                    /\ hist.all => proc'[p].res.json[name]
               /\ DOMAIN tg.Toolsets = {} => proc'[p].res = Json(<<>>)
               /\ UNCHANGED <<ts, tg, s>>]_vars

\* After "all", the answer reports true for a toolset whose own flag is false.
C15_Witness ==
    \E p \in Procs :
        /\ proc[p].pc = "done"
        /\ proc[p].req = "list_available_toolsets"
        /\ hist.all
        /\ Cardinality(DOMAIN proc[p].res.json) > 1
        /\ \E name \in DOMAIN proc[p].res.json :
            proc[p].res.json[name] /\ ~ts[tg.Toolsets[name]].Enabled

C17_State ==
    \A p \in Procs :
        (proc[p].pc = "done" /\ proc[p].res.isError) => main = "serving"

C17_Step ==
    \A p \in Procs :
        /\ (/\ proc[p].pc = "idle"
            /\ proc'[p].pc # "idle"
            /\ proc'[p].req \in {"enable_toolset", "get_toolset_tools"}
            /\ proc'[p].arg = NoParam \/ ~Has(tg, proc'[p].arg))
                => /\ proc'[p].pc = "done"
                   /\ proc'[p].res.isError
                   /\ proc'[p].res.text =
                        IF proc'[p].arg = NoParam
                        THEN <<"missing required parameter: toolset">>
                        ELSE <<"Toolset", proc'[p].arg, "not found">>
                   /\ UNCHANGED <<main, ts, tg, s>>
        /\ (proc[p].pc = "done" /\ proc[p].res.isError /\ proc'[p] # proc[p])
                => /\ proc'[p] = Idle
                   /\ UNCHANGED <<main, ts, tg, s>>

\* C17: enable_toolset and get_toolset_tools answer a request without the
\* toolset parameter with the missing-parameter error result, and a request
\* naming no toolset of the group with the error result "Toolset <name> not
\* found"; the request changes no toolset, not the group and not the server,
\* and the server goes on serving.
C17_ErrorResults == []C17_State /\ [][C17_Step]_vars

\* "not found" from a server on which an earlier request enabled a toolset.
C17_Witness ==
    \E p \in Procs :
        /\ proc[p].pc = "done"
        /\ proc[p].res = NotFound(proc[p].arg)
        /\ proc[p].arg # NoParam
        /\ \E a \in Addrs : hist.of[a].by = "dynamic" /\ hist.of[a].pushes = 1
        /\ \E name \in DOMAIN tg.Toolsets : ~ts[tg.Toolsets[name]].Enabled

----------------------------------------------------------------------------
(* Registration *)

\* The registration calls C18 expects for toolset t, in order.
C18_Calls(t) ==
    IF ~t.Enabled
    THEN <<>>
    ELSE [i \in 1..Len(t.readTools) |-> [call |-> "AddTool", items |-> <<t.readTools[i]>>]]
         \o (IF t.readOnly
             THEN <<>>
             ELSE [i \in 1..Len(t.writeTools) |->
                        [call |-> "AddTool", items |-> <<t.writeTools[i]>>]])
         \o [i \in 1..Len(t.resourceTemplates) |->
                [call |-> "AddResourceTemplate", items |-> <<t.resourceTemplates[i]>>]]

\* C18: the group's RegisterTools makes, for every toolset of the group once
\* and in some order of the toolsets, no call if the toolset is disabled and
\* otherwise one call for each read tool in the order added, then one for
\* each write tool unless the toolset is read-only, then one for each
\* resource template, read-only or not.
C18_RegistrationOrder ==
    ret.op = "RegisterTools" =>
        \E order \in Orders(DOMAIN tg.Toolsets) :
            s = Flatten([i \in 1..Len(order) |-> C18_Calls(ts[tg.Toolsets[order[i]]])])

\* The group registered an enabled toolset with read tools, a write tool and
\* a resource template, and a disabled toolset that holds read tools.
C18_Witness ==
    /\ ret.op = "RegisterTools"
    /\ \E n1, n2 \in DOMAIN tg.Toolsets :
        LET a == tg.Toolsets[n1]
            b == tg.Toolsets[n2]
        IN  /\ ts[a].Enabled
            /\ ~ts[a].readOnly
            /\ Len(ts[a].readTools) > 1
            /\ ts[a].writeTools # <<>>
            /\ ts[a].resourceTemplates # <<>>
            /\ ~ts[b].Enabled
            /\ ts[b].readTools # <<>>

\* C19: EnableToolset("all") returns nil and sets everythingOn; the Enabled
\* and readOnly flags of every toolset, the names of the group and the server
\* are as before the call.
C19_AllOnlySetsOverride ==
    [][ret'.op = "EnableToolset" =>
        (Call_EnableToolset("all")
            => /\ ret'.err = Nil
               /\ tg'.everythingOn
               /\ tg'.Toolsets = tg.Toolsets
               /\ tg'.readOnly = tg.readOnly
               /\ DOMAIN ts' = DOMAIN ts
               /\ \A a \in Addrs :
                    /\ ts'[a].Enabled = ts[a].Enabled
                    /\ ts'[a].readOnly = ts[a].readOnly
               /\ s' = s)]_vars

\* EnableToolset("all") was the last call, on a group of several toolsets
\* none of which is enabled.
C19_Witness ==
    /\ ret.op = "EnableToolset"
    /\ ret.err = Nil
    /\ tg.everythingOn
    /\ Cardinality(DOMAIN tg.Toolsets) > 1
    /\ \A name \in DOMAIN tg.Toolsets : ~ts[tg.Toolsets[name]].Enabled

\* C20: the server holds a tool or a resource template of a toolset only if
\* the toolset's own Enabled flag is true; so the three tools of the
\* "dynamic" toolset are on the server only if that toolset is enabled.
C20_ServerHoldsEnabledOnly ==
    \A a \in Addrs :
        (\/ Range(ts[a].readTools \o ts[a].writeTools) \cap ServerTools(s) # {}
         \/ Range(ts[a].resourceTemplates) \cap ServerResourceTemplates(s) # {})
            => ts[a].Enabled

\* The server holds the three tools of the enabled "dynamic" toolset and no
\* tool of another toolset of the group, which is disabled.
C20_Witness ==
    /\ main = "serving"
    /\ \E n1, n2 \in DOMAIN tg.Toolsets :
        LET a == tg.Toolsets[n1]
            b == tg.Toolsets[n2]
        IN  /\ ts[a].Name = "dynamic"
            /\ ts[a].Enabled
            /\ Len(ts[a].readTools) = 3
            /\ Range(ts[a].readTools) \subseteq ServerTools(s)
            /\ ~ts[b].Enabled
            /\ ts[b].readTools # <<>>
            /\ Range(ts[b].readTools) \cap ServerTools(s) = {}

----------------------------------------------------------------------------
(* The reserved name, the enum of the toolset parameter, and what the       *)
(* dynamic tools take for enabled                                           *)

\* C21: no toolset named "all" is a key of the group's map: AddToolset
\* rejects a toolset of that name.
C21_AllIsNoToolset == "all" \notin DOMAIN tg.Toolsets

\* C22: once the tools enable_toolset and get_toolset_tools are constructed,
\* and so after InitToolsets, the names their toolset parameter allows are
\* the keys of the group's map, the toolset that holds these tools included.
C22_EnumIsKeySet ==
    (\E a \in Addrs : Range(ts[a].readTools) \cap EnumTools # {})
        => enum = DOMAIN tg.Toolsets

\* C23: an enable_toolset request for a toolset of the group is answered
\* "already enabled", and pushes nothing, exactly when list_available_toolsets
\* reports the name as true, that is when IsEnabled(name), also after
\* EnableToolset("all"): the request goes on to set the flag and push only
\* if IsEnabled(name) is false.
C23_DynamicAgreesWithGroup ==
    \A p \in Procs :
        /\ proc[p].pc = "set" => ~IsEnabled(tg, ts, proc[p].arg)
        /\ (proc[p].pc = "done" /\ proc[p].res = AlreadyEnabled(proc[p].arg))
                => IsEnabled(tg, ts, proc[p].arg)

\* C24: after an enable_toolset request enabled a toolset, the server holds
\* what it would hold had the toolset been enabled before the group's
\* RegisterTools: its tools and its resource templates.
C24_DynamicEnableAsStartup ==
    \A a \in Addrs :
        hist.of[a].pushes > 0 =>
            LET calls == Toolset_RegisterTools(ts[a])
            IN  /\ ServerTools(calls) \subseteq ServerTools(s)
                /\ ServerResourceTemplates(calls) \subseteq ServerResourceTemplates(s)

====
